---- MODULE Spec2Model ----
(***************************************************************************)
(* A model of app.py: the research summariser.  One POST request runs the  *)
(* pipeline  validate -> search_articles -> fetch_all_articles_parallel -> *)
(* generate_summary_with_model -> markdown -> render_template.             *)
(*                                                                         *)
(* Text is kept run-length encoded: a string is a sequence of runs         *)
(* <<c, n>> (the character c repeated n > 0 times) in which neighbouring   *)
(* runs carry different characters, so that two strings are equal exactly  *)
(* when their encodings are equal and the 3000 and 20000 character budgets *)
(* of the program keep their real values.                                  *)
(***************************************************************************)
EXTENDS Integers, Sequences, FiniteSets, TLC

(* ------------------------------ bounds -------------------------------- *)

\* The longest list of items the search provider answers with.
MaxLinks == 7

\* The longest list of links handed to fetch_all_articles_parallel directly.
DirectMaxLinks == 3

(* ------------------------- program constants -------------------------- *)

DefaultMaxResults == 5
DefaultMaxChars == 3000
CombinedLimit == 20000
MaxWorkers == 5

(* ------------------------------ strings ------------------------------- *)

Min(a, b) == IF a <= b THEN a ELSE b

Max(a, b) == IF a >= b THEN a ELSE b

RECURSIVE StrLen(_)
\* len(s)
StrLen(s) == IF s = <<>> THEN 0 ELSE s[1][2] + StrLen(Tail(s))

RECURSIVE StrTake(_, _)
\* The first k characters of s, for 0 <= k.
StrTake(s, k) ==
  IF k <= 0 \/ s = <<>> THEN <<>>
  ELSE IF s[1][2] <= k THEN <<s[1]>> \o StrTake(Tail(s), k - s[1][2])
  ELSE << <<s[1][1], k>> >>

\* a + b
StrCat(a, b) ==
  IF a = <<>> THEN b
  ELSE IF b = <<>> THEN a
  ELSE IF a[Len(a)][1] = b[1][1]
       THEN SubSeq(a, 1, Len(a) - 1)
            \o << <<b[1][1], a[Len(a)][2] + b[1][2]>> >>
            \o Tail(b)
       ELSE a \o b

\* Python's s[:k]: a negative k counts from the end of s.
PySlicePrefix(s, k) ==
  IF k >= 0 THEN StrTake(s, Min(k, StrLen(s)))
  ELSE StrTake(s, Max(StrLen(s) + k, 0))

RECURSIVE StrJoin(_, _)
\* sep.join(parts)
StrJoin(sep, parts) ==
  IF parts = <<>> THEN <<>>
  ELSE IF Len(parts) = 1 THEN parts[1]
  ELSE StrCat(StrCat(parts[1], sep), StrJoin(sep, Tail(parts)))

\* "\n\n---\n\n"
Separator == << <<"\n", 2>>, <<"-", 3>>, <<"\n", 2>> >>

(* --------------------------- Python values ---------------------------- *)

None == [tag |-> "None"]

Str(s) == [tag |-> "str", val |-> s]

\* bool(v) of an optional string
Truthy(v) == v.tag = "str" /\ v.val # <<>>

Return(v) == [kind |-> "return", value |-> v]

Raise(e) == [kind |-> "raise", exc |-> e]

\* try: body / except Exception: return fallback
TryExcept(body, fallback) ==
  IF body.kind = "raise" THEN Return(fallback) ELSE body

(* -------------------- text that is not article text ------------------- *)

\* A message, model output or piece of Markdown is a sequence of lines; a
\* line is its text and whether it is written as a bullet ("- text").
Line(t) == [bullet |-> FALSE, text |-> t]

Bullet(t) == [bullet |-> TRUE, text |-> t]

Text(t) == <<Line(t)>>

\* The messages of index() and generate_summary_with_model, without the
\* cross mark that opens two of them.
EmptyTopicMsg == Text("Please enter a valid topic to summarize.")

NoArticlesMsg ==
  Text("Could not find any relevant articles for this topic. Please check your API keys or try a different topic.")

ExtractionFailedMsg ==
  Text("Found articles, but failed to extract content from all of them.")

ModelUnavailableMsg ==
  Text("The generative model is not available due to a configuration error.")

GenerationErrorMsg ==
  Text("An error occurred while generating the summary. Please try again.")

RECURSIVE Markdown(_)
\* markdown.markdown(md): neighbouring bullet lines become one <ul> of <li>
\* items, neighbouring plain lines one <p>; the empty text converts to the
\* empty text.
Markdown(md) ==
  IF md = <<>> THEN <<>>
  ELSE LET rest == Markdown(Tail(md))
           tag  == IF md[1].bullet THEN "ul" ELSE "p"
       IN IF rest # <<>> /\ rest[1].tag = tag
          THEN <<[tag |-> tag, body |-> <<md[1].text>> \o rest[1].body]>>
               \o Tail(rest)
          ELSE <<[tag |-> tag, body |-> <<md[1].text>>]>> \o rest

(* ------------------------------ topics -------------------------------- *)

Whitespace == {" ", "\t", "\n"}

RECURSIVE LStrip(_)
LStrip(s) ==
  IF s # <<>> /\ s[1] \in Whitespace THEN LStrip(Tail(s)) ELSE s

RECURSIVE RStrip(_)
RStrip(s) ==
  IF s # <<>> /\ s[Len(s)] \in Whitespace
  THEN RStrip(SubSeq(s, 1, Len(s) - 1)) ELSE s

\* str.strip()
Strip(s) == RStrip(LStrip(s))

\* The topic form field as posted: absent, empty, blank, padded, plain.
FormTopics ==
  { None, Str(<<>>), Str(<<" ", "\t">>), Str(<<" ", "q", " ", "c", "\n">>),
    Str(<<"x">>) }

\* request.form.get("topic", "")
FormGet(form) == IF form.tag = "None" THEN <<>> ELSE form.val

(* ------------------------------ the web ------------------------------- *)

UrlNames == <<"u1", "u2", "u3", "u4", "u5", "u6", "u7", "u8", "u9", "u10">>

Urls == {UrlNames[i] : i \in 1..Len(UrlNames)}

\* The text newspaper extracts from each page when download and parse work.
Pages ==
  << << <<"a", 7000>> >>,
     << <<"b", 3000>> >>,
     << <<"c", 3001>> >>,
     << <<"d", 2999>> >>,
     << <<"e", 1500>>, <<" ", 1>>, <<"f", 5499>> >>,
     << <<"g", 4000>> >>,
     << <<"h", 3000>> >>,
     << <<"i", 3500>> >>,
     << <<"A", 5>>, <<" ", 1>>, <<"b", 5>> >>,
     <<>> >>

PageText(url) == Pages[CHOOSE i \in 1..Len(UrlNames) : UrlNames[i] = url]

\* What Article(url).download() and .parse() can do for a URL.
PageOutcomes(url) ==
  { Raise("download failed"), Raise("parse failed"), Return(PageText(url)) }

\* The relevance rankings a provider answers from: long pages, and a short
\* page followed by an empty one and a long one.
RankLong == SubSeq(UrlNames, 1, 8)

RankMixed == <<"u9", "u10", "u1">>

Item(url) == [link |-> url]

ItemsOf(urls) == [i \in 1..Len(urls) |-> Item(urls[i])]

\* The lists of items a provider answers with: the top n of a ranking, and
\* a list one of whose items carries no link.
UrlLists ==
  { SubSeq(r, 1, Min(n, Len(r))) : r \in {RankLong, RankMixed}, n \in 0..MaxLinks }

ItemLists ==
  { ItemsOf(l) : l \in UrlLists } \cup { <<Item("u9"), [title |-> "untitled"]>> }

\* service.cse().list(...).execute(): an error, a result without "items",
\* or a result with items.
ProviderAnswers ==
  { Raise("HttpError"), Return([searchInformation |-> "0 results"]) }
  \cup { Return([items |-> l]) : l \in ItemLists }

\* os.getenv(name): unset, set to the empty string, set.
EnvValues == { None, Str(<<>>), Str(<< <<"k", 1>> >>) }

(* -------------------------- search_articles --------------------------- *)

\* [item['link'] for item in result.get('items', [])]
LinksOf(result) ==
  LET items == IF "items" \in DOMAIN result THEN result.items ELSE <<>>
  IN IF \E i \in 1..Len(items) : "link" \notin DOMAIN items[i]
     THEN Raise("KeyError")
     ELSE Return([i \in 1..Len(items) |-> items[i].link])

\* The try block of search_articles; answer is what the provider does with
\* the query (q = topic, cx = cse_id, num = max_results).
SearchBody(answer) ==
  IF answer.kind = "raise" THEN answer ELSE LinksOf(answer.value)

search_articles(api_key, cse_id, answer, topic, max_results) ==
  IF ~Truthy(api_key) \/ ~Truthy(cse_id) THEN Return(<<>>)
  ELSE TryExcept(SearchBody(answer), <<>>)

(* ----------------------- fetch_article_content ------------------------ *)

\* A fetch that forgets the budget: the whole text is returned.
FetchBodyUncut(page, max_chars) ==
  IF page.kind = "raise" THEN page
  ELSE IF page.value = <<>> THEN Raise("ValueError")
  ELSE Return(Str(page.value))

\* The try block of fetch_article_content; page is what download and parse
\* do for the URL.
FetchBody(page, max_chars) ==
  IF page.kind = "raise" THEN page
  ELSE IF page.value = <<>> THEN Raise("ValueError")
  ELSE Return(Str(PySlicePrefix(page.value, max_chars)))

fetch_article_content(page, url, max_chars) ==
  TryExcept(FetchBody(page, max_chars), None)

(* -------------------- generate_summary_with_model --------------------- *)

\* What model.generate_content(prompt) and response.text can do: the call
\* fails, the response carries no text (reading .text raises), or it
\* carries a text, possibly empty.
ModelAnswers ==
  { Raise("APIError"), Return([blocked |-> TRUE]) }
  \cup { Return([text |-> t]) :
           t \in { <<>>, <<Bullet("Alpha is beta.")>>,
                   <<Line("Summary"), Bullet("one"), Bullet("two")>> } }

\* A prompt built without the ceiling on the combined text.
CombinedTextUncut(contents) == StrJoin(Separator, contents)

\* combined_text
CombinedText(contents) ==
  LET joined == StrJoin(Separator, contents)
  IN IF StrLen(joined) > CombinedLimit
     THEN PySlicePrefix(joined, CombinedLimit) ELSE joined

Prompt(topic, contents) ==
  [topic |-> topic, combined_text |-> CombinedText(contents)]

\* The try block of generate_summary_with_model.
GenerateBody(answer) ==
  IF answer.kind = "raise" THEN answer
  ELSE IF "text" \notin DOMAIN answer.value THEN Raise("ValueError")
  ELSE Return(answer.value.text)

\* A generator that calls the model a second time when the first call fails.
generate_with_retry(model, answer, topic, contents) ==
  IF ~model
  THEN [out |-> Return(ModelUnavailableMsg), sent |-> <<>>]
  ELSE [out  |-> TryExcept(GenerateBody(answer), GenerationErrorMsg),
        sent |-> IF GenerateBody(answer).kind = "raise"
                 THEN <<Prompt(topic, contents), Prompt(topic, contents)>>
                 ELSE <<Prompt(topic, contents)>>]

\* The value returned, and the prompts sent to the model on the way.
generate_summary_with_model(model, answer, topic, contents) ==
  IF ~model
  THEN [out |-> Return(ModelUnavailableMsg), sent |-> <<>>]
  ELSE [out  |-> TryExcept(GenerateBody(answer), GenerationErrorMsg),
        sent |-> <<Prompt(topic, contents)>>]

(* ------------------------------ state --------------------------------- *)

VARIABLES
  api_key,          \* os.getenv("GOOGLE_API_KEY")
  cse_id,           \* os.getenv("GOOGLE_CSE_ID")
  model,            \* TRUE: a model handle, FALSE: model = None
  pc,               \* where the running call stands
  caller,           \* who called: "index" (the route) or "direct"
  method,           \* request.method
  form,             \* the posted topic field
  topic,
  links,
  contents,
  summary_markdown,
  summary,
  rendered,         \* the keyword arguments handed to render_template
  futures,          \* executor.map's futures, in input order
  work_queue,       \* the executor's queue of submitted, unstarted items
  collected,        \* how many results the for loop has consumed
  articles,
  first_done,       \* history: the index of the future that finished first
  calls,            \* history: calls made during the run, per function
  sent,             \* history: the prompts sent to the model during the run
  call              \* history: the last direct call and its outcome

config == <<api_key, cse_id, model>>

request == <<method, form, topic, summary_markdown, summary, rendered>>

pool == <<futures, work_queue, collected, articles, first_done>>

vars ==
  <<api_key, cse_id, model, pc, caller, method, form, topic, links, contents,
    summary_markdown, summary, rendered, futures, work_queue, collected,
    articles, first_done, calls, sent, call>>

NoCalls == [search |-> 0, fetch_all |-> 0, fetch |-> 0, generate |-> 0]

NoCall == [fn |-> "none"]

\* The locals of index() as the function is entered, and a fresh run.
Fresh ==
  /\ caller = "none"
  /\ method = "none"
  /\ form = None
  /\ topic = <<>>
  /\ links = <<>>
  /\ contents = <<>>
  /\ summary_markdown = None
  /\ summary = None
  /\ rendered = None
  /\ futures = <<>>
  /\ work_queue = <<>>
  /\ collected = 0
  /\ articles = <<>>
  /\ first_done = 0
  /\ calls = NoCalls
  /\ sent = <<>>
  /\ call = NoCall

Init ==
  /\ api_key \in EnvValues
  /\ cse_id \in EnvValues
  /\ model \in BOOLEAN
  /\ pc = "idle"
  /\ Fresh

\* render_template("index.html", **context)
Render(context) == [tag |-> "page", context |-> context]

(* --------------------- fetch_all_articles_parallel -------------------- *)

Running == {i \in 1..Len(futures) : futures[i].state = "RUNNING"}

\* A pool that starts a thread for every queued item.
WorkerAlwaysFree == TRUE

\* A worker thread is free to take the next queued item.
WorkerFree == Cardinality(Running) < MaxWorkers

\* A loop that reads a future without waiting for it.
ResultReadyAtOnce(i) == TRUE

\* future.result() has a value to return: it blocks until then.
ResultReady(i) == futures[i].state = "FINISHED"

\* executor.map submits one work item per link, in order.
Submit ==
  /\ pc = "map"
  /\ Len(futures) < Len(links)
  /\ futures' = Append(futures,
                  [state |-> "PENDING", starts |-> 0, outcome |-> Return(None)])
  /\ work_queue' = Append(work_queue, Len(futures) + 1)
  /\ pc' = IF Len(futures) + 1 = Len(links) THEN "collect" ELSE "map"
  /\ UNCHANGED <<config, request, caller, links, contents, collected,
                 articles, first_done, calls, sent, call>>

\* A free worker takes the oldest queued item and calls
\* fetch_article_content(link).
Start ==
  /\ pc \in {"map", "collect", "unwind"}
  /\ work_queue # <<>>
  /\ WorkerFree
  /\ LET i == Head(work_queue)
     IN futures' = [futures EXCEPT ![i].state = "RUNNING",
                                   ![i].starts = @ + 1]
  /\ work_queue' = Tail(work_queue)
  /\ calls' = [calls EXCEPT !.fetch = @ + 1]
  /\ UNCHANGED <<config, request, pc, caller, links, contents, collected,
                 articles, first_done, sent, call>>

\* A running fetch_article_content(link) ends and its future is set.
Finish ==
  /\ pc \in {"map", "collect", "unwind"}
  /\ \E i \in Running :
       \E page \in PageOutcomes(links[i]) :
         /\ futures' =
              [futures EXCEPT
                 ![i].state = "FINISHED",
                 ![i].outcome =
                    fetch_article_content(page, links[i], DefaultMaxChars)]
         /\ first_done' = IF first_done = 0 THEN i ELSE first_done
  /\ UNCHANGED <<config, request, pc, caller, links, contents, work_queue,
                 collected, articles, calls, sent, call>>

\* articles.insert(0, content)
PrependArticle(as, content) == <<content>> \o as

\* articles.append(content)
AppendArticle(as, content) == Append(as, content)

\* One round of "for content in results": the next future's result, in
\* input order, appended when truthy.
Collect ==
  /\ pc = "collect"
  /\ collected < Len(links)
  /\ ResultReady(collected + 1)
  /\ LET out == futures[collected + 1].outcome
     IN IF out.kind = "raise"
        THEN /\ pc' = "unwind"
             /\ call' = IF caller = "direct" THEN [call EXCEPT !.out = out]
                        ELSE call
             /\ UNCHANGED <<collected, articles>>
        ELSE /\ collected' = collected + 1
             /\ articles' = IF Truthy(out.value)
                            THEN AppendArticle(articles, out.value.val)
                            ELSE articles
             /\ UNCHANGED <<pc, call>>
  /\ UNCHANGED <<config, request, caller, links, contents, futures,
                 work_queue, first_done, calls, sent>>

\* The with block is left once the executor has shut down (wait=True).
ExecutorShutDown ==
  /\ work_queue = <<>>
  /\ \A i \in 1..Len(futures) : futures[i].state = "FINISHED"

\* Gates that never close.
TopicNeverMissing(t) == FALSE

ContentsNeverMissing(c) == FALSE

\* "if not topic", "if not links", "if not contents"
NotTopic(t) == t = <<>>

NotLinks(l) == l = <<>>

NotContents(c) == c = <<>>

\* fetch_all_articles_parallel(ls) is entered by who.
EnterFetchAll(ls, who) ==
  /\ caller' = who
  /\ links' = ls
  /\ pc' = IF ls = <<>> THEN "collect" ELSE "map"
  /\ futures' = <<>>
  /\ work_queue' = <<>>
  /\ collected' = 0
  /\ articles' = <<>>
  /\ first_done' = 0
  /\ contents' = <<>>

\* "return articles", and in index() the gate on contents after it; an
\* exception met by the loop leaves the function instead.
FetchAllReturn ==
  /\ pc \in {"collect", "unwind"}
  /\ pc = "collect" => collected = Len(links)
  /\ ExecutorShutDown
  /\ IF pc = "unwind"
     THEN /\ pc' = IF caller = "index" THEN "error500" ELSE "returned"
          /\ UNCHANGED <<contents, summary, rendered, call>>
     ELSE /\ contents' = articles
          /\ IF caller = "direct"
             THEN /\ call' = [call EXCEPT !.out = Return(articles)]
                  /\ pc' = "returned"
                  /\ UNCHANGED <<summary, rendered>>
             ELSE /\ IF NotContents(articles)
                     THEN /\ summary' = Str(ExtractionFailedMsg)
                          /\ rendered' =
                               Render([summary |-> Str(ExtractionFailedMsg),
                                       topic |-> topic, links |-> links])
                          /\ pc' = "done"
                     ELSE /\ pc' = "generate"
                          /\ UNCHANGED <<summary, rendered>>
                  /\ UNCHANGED call
  /\ UNCHANGED <<config, caller, method, form, topic, summary_markdown,
                 links, pool, calls, sent>>

(* ------------------------------ index() ------------------------------- *)

\* A request arrives: index() up to its first external call.
IndexEnter ==
  /\ pc = "idle"
  /\ \E m \in {"GET", "POST"}, f \in FormTopics :
       /\ method' = m
       /\ form' = f
       /\ IF m = "GET"
          THEN /\ topic' = <<>>
               /\ summary' = None
               /\ rendered' = Render([summary |-> None, topic |-> <<>>,
                                      links |-> <<>>])
               /\ pc' = "done"
          ELSE /\ topic' = Strip(FormGet(f))
               /\ IF NotTopic(Strip(FormGet(f)))
                  THEN /\ summary' = Str(EmptyTopicMsg)
                       /\ rendered' = Render([summary |-> Str(EmptyTopicMsg)])
                       /\ pc' = "done"
                  ELSE /\ pc' = "search"
                       /\ UNCHANGED <<summary, rendered>>
  /\ caller' = "index"
  /\ UNCHANGED <<config, links, contents, summary_markdown, pool, calls,
                 sent, call>>

\* links = search_articles(topic), and the gate on links after it.
IndexSearch ==
  /\ pc = "search"
  /\ \E answer \in ProviderAnswers :
       LET out == search_articles(api_key, cse_id, answer, topic,
                                  DefaultMaxResults)
       IN IF out.kind = "raise"
          THEN /\ pc' = "error500"
               /\ calls' = [calls EXCEPT !.search = @ + 1]
               /\ UNCHANGED <<caller, links, contents, summary, rendered,
                              pool>>
          ELSE IF NotLinks(out.value)
          THEN /\ links' = out.value
               /\ summary' = Str(NoArticlesMsg)
               /\ rendered' = Render([summary |-> Str(NoArticlesMsg),
                                      topic |-> topic])
               /\ pc' = "done"
               /\ calls' = [calls EXCEPT !.search = @ + 1]
               /\ UNCHANGED <<caller, contents, pool>>
          ELSE /\ EnterFetchAll(out.value, "index")
               /\ calls' = [calls EXCEPT !.search = @ + 1,
                                         !.fetch_all = @ + 1]
               /\ UNCHANGED <<summary, rendered>>
  /\ UNCHANGED <<config, method, form, topic, summary_markdown, sent, call>>

\* summary_markdown = generate_summary_with_model(topic, contents), its
\* conversion to HTML and the final render_template.
IndexGenerate ==
  /\ pc = "generate"
  /\ \E answer \in ModelAnswers :
       LET g == generate_summary_with_model(model, answer, topic, contents)
       IN /\ sent' = sent \o g.sent
          /\ IF g.out.kind = "raise"
             THEN /\ pc' = "error500"
                  /\ UNCHANGED <<summary_markdown, summary, rendered>>
             ELSE /\ summary_markdown' = Str(g.out.value)
                  /\ summary' = Str(Markdown(g.out.value))
                  /\ rendered' =
                       Render([summary |-> Str(Markdown(g.out.value)),
                               topic |-> topic, links |-> links])
                  /\ pc' = "done"
  /\ calls' = [calls EXCEPT !.generate = @ + 1]
  /\ UNCHANGED <<config, caller, method, form, topic, links, contents, pool,
                 call>>

\* The response is sent; the next request starts from fresh locals.
Respond ==
  /\ pc \in {"done", "error500", "returned"}
  /\ pc' = "idle"
  /\ caller' = "none"
  /\ method' = "none"
  /\ form' = None
  /\ topic' = <<>>
  /\ links' = <<>>
  /\ contents' = <<>>
  /\ summary_markdown' = None
  /\ summary' = None
  /\ rendered' = None
  /\ futures' = <<>>
  /\ work_queue' = <<>>
  /\ collected' = 0
  /\ articles' = <<>>
  /\ first_done' = 0
  /\ calls' = NoCalls
  /\ sent' = <<>>
  /\ call' = NoCall
  /\ UNCHANGED config

Next ==
  \/ IndexEnter
  \/ IndexSearch
  \/ Submit
  \/ Start
  \/ Finish
  \/ Collect
  \/ FetchAllReturn
  \/ IndexGenerate
  \/ Respond

Spec == Init /\ [][Next]_vars

(* --------------------------- direct calls ----------------------------- *)

\* Arguments for calls made directly rather than through the route.
DirectTopics == { <<"x">>, <<"q", " ", "c">> }

DirectMaxResults == { 1, DefaultMaxResults, 10 }

DirectMaxChars == { 0, 1, 5, 6, 11, 12, 2999, DefaultMaxChars, 3001, 7000, 8000 }

DirectLinks ==
  { SubSeq(r, 1, Min(n, Len(r))) :
      r \in {RankLong, RankMixed}, n \in 0..DirectMaxLinks }

DirectContents ==
  { <<>>, <<Pages[9]>>, <<Pages[10]>>, <<Pages[9], Pages[2]>>,
    <<Pages[1], Pages[5], Pages[1]>>, <<Pages[2], Pages[2], Pages[9]>> }

CallSearch ==
  /\ pc = "idle"
  /\ \E t \in DirectTopics, m \in DirectMaxResults, answer \in ProviderAnswers :
       call' = [fn |-> "search_articles", topic |-> t, max_results |-> m,
                answer |-> answer,
                out |-> search_articles(api_key, cse_id, answer, t, m)]
  /\ pc' = "returned"
  /\ caller' = "direct"
  /\ UNCHANGED <<config, request, links, contents, pool, calls, sent>>

CallFetch ==
  /\ pc = "idle"
  /\ \E url \in Urls, m \in DirectMaxChars :
       \E page \in PageOutcomes(url) :
         call' = [fn |-> "fetch_article_content", url |-> url,
                  max_chars |-> m, page |-> page,
                  out |-> fetch_article_content(page, url, m)]
  /\ pc' = "returned"
  /\ caller' = "direct"
  /\ UNCHANGED <<config, request, links, contents, pool, calls, sent>>

CallGenerate ==
  /\ pc = "idle"
  /\ \E t \in DirectTopics, cs \in DirectContents, answer \in ModelAnswers :
       LET g == generate_summary_with_model(model, answer, t, cs)
       IN /\ call' = [fn |-> "generate_summary_with_model", topic |-> t,
                      contents |-> cs, answer |-> answer, out |-> g.out]
          /\ sent' = g.sent
  /\ pc' = "returned"
  /\ caller' = "direct"
  /\ UNCHANGED <<config, request, links, contents, pool, calls>>

CallFetchAll ==
  /\ pc = "idle"
  /\ \E ls \in DirectLinks :
       /\ EnterFetchAll(ls, "direct")
       /\ call' = [fn |-> "fetch_all_articles_parallel", links |-> ls,
                   out |-> [kind |-> "running"]]
  /\ UNCHANGED <<config, request, calls, sent>>

NextDirect ==
  \/ CallSearch
  \/ CallFetch
  \/ CallGenerate
  \/ CallFetchAll
  \/ Submit
  \/ Start
  \/ Finish
  \/ Collect
  \/ FetchAllReturn
  \/ Respond

SpecDirect == Init /\ [][NextDirect]_vars

(* ------------------------------ claims -------------------------------- *)

RECURSIVE IsStrPrefix(_, _)
\* p is a leading part of s, both run-length encoded.
IsStrPrefix(p, s) ==
  IF p = <<>> THEN TRUE
  ELSE IF s = <<>> THEN FALSE
  ELSE IF p[1][1] # s[1][1] THEN FALSE
  ELSE IF p[1][2] = s[1][2] THEN IsStrPrefix(Tail(p), Tail(s))
  ELSE p[1][2] < s[1][2] /\ Len(p) = 1

RECURSIVE JoinedFromEnd(_)
\* The articles joined by the separator, built from the last one backwards.
JoinedFromEnd(parts) ==
  IF parts = <<>> THEN <<>>
  ELSE IF Len(parts) = 1 THEN parts[1]
  ELSE StrCat(JoinedFromEnd(SubSeq(parts, 1, Len(parts) - 1)),
              StrCat(Separator, parts[Len(parts)]))

\* The fetch behind future i has ended with a content.
Succeeded(i) ==
  /\ futures[i].state = "FINISHED"
  /\ futures[i].outcome.kind = "return"
  /\ futures[i].outcome.value.tag = "str"

Occurrences(seq, v) == Cardinality({k \in 1..Len(seq) : seq[k] = v})

RECURSIVE SuccessesInInputOrder(_)
\* The contents of the successful fetches among the first n futures, in
\* the order of the links.
SuccessesInInputOrder(n) ==
  IF n = 0 THEN <<>>
  ELSE IF Succeeded(n)
       THEN Append(SuccessesInInputOrder(n - 1), futures[n].outcome.value.val)
       ELSE SuccessesInInputOrder(n - 1)

FetchAllReturned ==
  pc = "returned" /\ call.fn = "fetch_all_articles_parallel"

\* C1: in a POST run the stages are hard gates in the order validate,
\* search, fetchAll, generate: search_articles is called only with a
\* non-empty trimmed topic, fetch_all_articles_parallel (and any fetch)
\* only after a search that returned links, generate_summary_with_model
\* (and any model call) only after a fetchAll that returned contents; a
\* missing, empty or blank topic ends in the empty-topic message with no
\* search, fetch or model call made.
C1_HardGates ==
  /\ calls.search > 0 => method = "POST" /\ ~(topic = <<>>)
  /\ calls.fetch_all > 0 => calls.search > 0 /\ links # <<>>
  /\ calls.fetch > 0 => calls.fetch_all > 0
  /\ calls.generate > 0 =>
       /\ calls.fetch_all > 0
       /\ contents # <<>>
       /\ collected = Len(links)
  /\ sent # <<>> => calls.generate > 0
  /\ (method = "POST" /\ Strip(FormGet(form)) = <<>>) =>
       /\ pc \in {"done"}
       /\ summary = Str(EmptyTopicMsg)
       /\ rendered.context.summary = Str(EmptyTopicMsg)
       /\ calls = NoCalls
       /\ sent = <<>>
       /\ futures = <<>>

C1_Witness ==
  /\ pc = "done"
  /\ method = "POST"
  /\ form = Str(<<" ", "\t">>)
  /\ summary = Str(EmptyTopicMsg)

\* C2: a POST run with a non-empty topic ends by the first stage that
\* yields nothing: an empty search result gives the no-articles message
\* with the topic echoed and no link passed on (links is empty and no
\* links argument other than the empty list reaches the template); links
\* all of whose fetches fail give the extraction-failed message with the
\* topic and exactly the searched links; otherwise the summary is the
\* HTML conversion of the string generate returned, with topic and links.
C2_TerminalOutcome ==
  /\ pc # "error500"
  /\ (pc = "done" /\ method = "POST" /\ topic # <<>>) =>
       LET ctx == rendered.context
       IN /\ ctx.topic = topic
          /\ ctx.summary = summary
          /\ IF calls.fetch_all = 0
             THEN /\ links = <<>>
                  /\ summary = Str(NoArticlesMsg)
                  /\ "links" \in DOMAIN ctx => ctx.links = <<>>
                  /\ calls.generate = 0
             ELSE IF \A i \in 1..Len(futures) : ~Succeeded(i)
             THEN /\ summary = Str(ExtractionFailedMsg)
                  /\ ctx.links = links
                  /\ Len(futures) = Len(links)
                  /\ calls.generate = 0
             ELSE /\ calls.generate = 1
                  /\ summary_markdown.tag = "str"
                  /\ summary = Str(Markdown(summary_markdown.val))
                  /\ ctx.links = links

C2_Witness ==
  /\ pc = "done"
  /\ method = "POST"
  /\ Len(links) = 3
  /\ \A i \in 1..Len(futures) : ~Succeeded(i)
  /\ summary = Str(ExtractionFailedMsg)
  /\ rendered.context.links = links

\* C3 (as claimed): search_articles never raises and returns at most
\* max_results links whatever the provider answers, and the empty list on
\* a provider error or a missing API key or engine id.
C3_SearchBounded ==
  (pc = "returned" /\ call.fn = "search_articles") =>
    /\ call.out.kind = "return"
    /\ Len(call.out.value) <= call.max_results
    /\ (~Truthy(api_key) \/ ~Truthy(cse_id) \/ call.answer.kind = "raise")
         => call.out.value = <<>>

C5_FetchAllCollectsSuccesses ==
  FetchAllReturned =>
    /\ Len(futures) = Len(links)
    /\ \A i \in 1..Len(futures) :
         futures[i].state = "FINISHED" /\ futures[i].outcome.kind = "return"
    /\ call.out.kind = "return"
    /\ LET result == call.out.value
           ok == {i \in 1..Len(futures) : Succeeded(i)}
       IN /\ Len(result) = Cardinality(ok)
          /\ Len(result) <= Len(links)
          /\ \A i \in ok :
               Occurrences(result, futures[i].outcome.value.val)
                 = Cardinality({j \in ok : futures[j].outcome = futures[i].outcome})
          /\ \A k \in 1..Len(result) :
               \E i \in ok : futures[i].outcome.value.val = result[k]
          /\ (result = <<>>) <=> (ok = {})
          /\ links = <<>> => result = <<>>

C5_Witness ==
  /\ FetchAllReturned
  /\ links = RankMixed
  /\ Succeeded(1)
  /\ ~Succeeded(2)
  /\ Succeeded(3)
  /\ Len(call.out.value) = 2

\* C6 (as claimed): when two fetches succeed and the one listed later
\* ends before the one listed earlier, the later link's content comes
\* before the earlier link's content in the result.
C6_CompletionOrder ==
  FetchAllReturned =>
    \A i, j \in 1..Len(futures) :
      (i < j /\ Succeeded(i) /\ Succeeded(j) /\ first_done = j) =>
        \E ki, kj \in 1..Len(call.out.value) :
          /\ kj < ki
          /\ call.out.value[kj] = futures[j].outcome.value.val
          /\ call.out.value[ki] = futures[i].outcome.value.val

\* C6 (amended): the successful contents come back in the order of the
\* links, whatever the order in which the fetches ended.
C6_InputOrder ==
  FetchAllReturned =>
    /\ call.out.kind = "return"
    /\ call.out.value = SuccessesInInputOrder(Len(futures))

C6_Witness ==
  /\ FetchAllReturned
  /\ Len(links) >= 2
  /\ first_done = 2
  /\ Succeeded(1)
  /\ Succeeded(2)
  /\ call.out.value[1] = futures[1].outcome.value.val

\* C7: in every pipeline run each content handed to generate has at most
\* 3000 characters, and the combined text in the prompt sent to the model
\* has at most 20000 characters and is a leading part of the contents
\* joined in their order by the separator, the whole of it when that has
\* at most 20000 characters.
C7_TruncationLaw ==
  /\ (pc = "generate" \/ calls.generate > 0) =>
       \A k \in 1..Len(contents) : StrLen(contents[k]) <= 3000
  /\ \A n \in 1..Len(sent) :
       LET joined == JoinedFromEnd(contents)
           text == sent[n].combined_text
       IN /\ StrLen(text) <= 20000
          /\ IsStrPrefix(text, joined)
          /\ StrLen(text) = Min(StrLen(joined), 20000)
          /\ StrLen(joined) <= 20000 => text = joined

C7_Witness ==
  /\ pc = "done"
  /\ Len(sent) = 1
  /\ StrLen(JoinedFromEnd(contents)) > 20000
  /\ StrLen(sent[1].combined_text) = 20000

\* C8: generate_summary_with_model never raises and returns a string,
\* also for no articles, with at most one model call: none and the fixed
\* apology when there is no model handle, otherwise exactly one, whose
\* text is returned as it is when the call succeeds and which is not
\* repeated when it fails, the fixed error string being returned.
C8_GenerateTotal ==
  (pc = "returned" /\ call.fn = "generate_summary_with_model") =>
    /\ call.out.kind = "return"
    /\ \A k \in 1..Len(call.out.value) :
         DOMAIN call.out.value[k] = {"bullet", "text"}
    /\ IF ~model
       THEN sent = <<>> /\ call.out.value = ModelUnavailableMsg
       ELSE /\ Len(sent) = 1
            /\ sent[1].topic = call.topic
            /\ IF call.answer.kind = "return"
                  /\ "text" \in DOMAIN call.answer.value
               THEN call.out.value = call.answer.value.text
               ELSE call.out.value = GenerationErrorMsg

C8_Witness ==
  /\ pc = "returned"
  /\ call.fn = "generate_summary_with_model"
  /\ model
  /\ call.contents = <<>>
  /\ call.answer.kind = "raise"
  /\ Len(sent) = 1
  /\ call.out = Return(GenerationErrorMsg)

\* C9 (as claimed): no run ends with a summary rendered from an empty
\* stage result: a run that reaches the summary has non-empty links,
\* non-empty article texts, a non-empty collection and a non-empty model
\* text.
C9_NoEmptySuccess ==
  (pc = "done" /\ calls.generate > 0 /\ sent # <<>>) =>
    /\ links # <<>>
    /\ contents # <<>>
    /\ \A k \in 1..Len(contents) : contents[k] # <<>>
    /\ summary_markdown # Str(<<>>)

\* C10: during fetch_all_articles_parallel every link is handed to
\* fetch_article_content exactly once and never more than 5 fetches are
\* in flight: with more links than workers the rest wait in the queue
\* until a worker is free.
C10_BoundedPool ==
  /\ Cardinality(Running) <= 5
  /\ \A i \in 1..Len(futures) :
       /\ futures[i].starts <= 1
       /\ futures[i].state = "PENDING" <=> futures[i].starts = 0
       /\ futures[i].state = "PENDING"
            <=> \E k \in 1..Len(work_queue) : work_queue[k] = i
  /\ pc \in {"generate", "done"} /\ calls.fetch_all > 0 =>
       /\ Len(futures) = Len(links)
       /\ \A i \in 1..Len(futures) : futures[i].starts = 1
       /\ calls.fetch = Len(links)

C10_Witness ==
  /\ Len(links) > 5
  /\ Cardinality(Running) = 5
  /\ work_queue # <<>>
  /\ \A i \in 1..Len(futures) : futures[i].state # "FINISHED"

====
